---------------------------- MODULE Spec2Model ----------------------------
(***************************************************************************)
(* A model of showcampy (src/src/showcampy/__main__.py): the crawl /       *)
(* resolve / dedup / download pipeline of main(), the archive ledger       *)
(* (read_archive, save_txt, touch_archive_path) and the identity parser    *)
(* (extract_video_id, extract_datetime, get_video_filename).               *)
(*                                                                         *)
(* Text is modelled as a sequence of one-character strings, so that        *)
(* formatting, stripping and parsing are computed character by character   *)
(* as the Python code computes them.                                       *)
(***************************************************************************)
EXTENDS Integers, Sequences, FiniteSets, TLC

(***************************************************************************)
(* Characters and numbers                                                  *)
(***************************************************************************)

DigitChars == <<"0", "1", "2", "3", "4", "5", "6", "7", "8", "9">>

IsDigit(c) == \E d \in 1..10 : DigitChars[d] = c

DigitVal(c) == (CHOOSE d \in 1..10 : DigitChars[d] = c) - 1

AllDigits(s) == \A i \in 1..Len(s) : IsDigit(s[i])

\* int(<decimal digits>): the value of a digit string.
RECURSIVE StrToNat(_)
StrToNat(s) ==
    IF s = <<>> THEN 0
    ELSE 10 * StrToNat(SubSeq(s, 1, Len(s) - 1)) + DigitVal(s[Len(s)])

\* str(n) of a non-negative int, as an f-string formats it: no padding.
RECURSIVE NatToStr(_)
NatToStr(n) ==
    IF n < 10 THEN <<DigitChars[n + 1]>>
    ELSE NatToStr(n \div 10) \o <<DigitChars[(n % 10) + 1]>>

\* A number zero-padded on the left to at least w digits (strftime's %m, %d, ...).
RECURSIVE ZeroPad(_, _)
ZeroPad(s, w) == IF Len(s) >= w THEN s ELSE ZeroPad(<<"0">> \o s, w)

\* str.rstrip(chars) / str.lstrip(chars): drop every trailing / leading
\* character that belongs to the SET chars.
RECURSIVE RStripChars(_, _)
RStripChars(s, chars) ==
    IF s # <<>> /\ s[Len(s)] \in chars
    THEN RStripChars(SubSeq(s, 1, Len(s) - 1), chars)
    ELSE s

RECURSIVE LStripChars(_, _)
LStripChars(s, chars) ==
    IF s # <<>> /\ s[1] \in chars
    THEN LStripChars(SubSeq(s, 2, Len(s)), chars)
    ELSE s

StripChars(s, chars) == LStripChars(RStripChars(s, chars), chars)

\* re.sub(r'-', '', s)
RECURSIVE RemoveHyphens(_)
RemoveHyphens(s) ==
    IF s = <<>> THEN <<>>
    ELSE (IF s[1] = "-" THEN <<>> ELSE <<s[1]>>) \o RemoveHyphens(SubSeq(s, 2, Len(s)))

Ok(v) == [ok |-> TRUE, val |-> v, err |-> "none"]

Raise(e) == [ok |-> FALSE, val |-> <<>>, err |-> e]

(***************************************************************************)
(* Identity parser                                                         *)
(***************************************************************************)

\* The length of the leading digit run of s: what r'^\d+' matches.
RECURSIVE LeadingDigits(_)
LeadingDigits(s) ==
    IF s # <<>> /\ IsDigit(s[1]) THEN 1 + LeadingDigits(SubSeq(s, 2, Len(s))) ELSE 0

\* extract_video_id: `group` is bound only when the match succeeds; without
\* leading digits `int(group)` reads an unbound local.
extract_video_id(s) ==
    IF LeadingDigits(s) > 0
    THEN Ok(StrToNat(SubSeq(s, 1, LeadingDigits(s))))
    ELSE Raise("UnboundLocalError")

\* The position after an optional separator at position p.
SkipOpt(s, p, seps) == IF p <= Len(s) /\ s[p] \in seps THEN p + 1 ELSE p

DigitsAt(s, p, n) == p + n - 1 <= Len(s) /\ \A k \in p..(p + n - 1) : IsDigit(s[k])

\* One attempt of r'(\d{4}-?\d{2}-?\d{2})[-_]?(\d{4,6})$' at start position i.
\* Every optional separator is followed by \d, which matches no separator,
\* and the time group is followed by $, so the greedy choice is the only
\* one that can succeed.  The result is <<matched, end of the date group,
\* start of the time group>>.
MatchAt(s, i) ==
    LET a == i + 4
        b == SkipOpt(s, a, {"-"})
        c == b + 2
        d == SkipOpt(s, c, {"-"})
        e == d + 2
        f == SkipOpt(s, e, {"-", "_"})
        n == Len(s) - f + 1
    IN  <<DigitsAt(s, i, 4) /\ DigitsAt(s, b, 2) /\ DigitsAt(s, d, 2)
            /\ n \in 4..6 /\ DigitsAt(s, f, n),
          e - 1, f>>

\* The padding left out: the time group is used as matched.
LJust6_none(t) == t

\* time.ljust(6, '0')
RECURSIVE LJust6(_)
LJust6(t) == IF Len(t) >= 6 THEN t ELSE LJust6(t \o <<"0">>)

IsLeap(y) == (y % 4 = 0 /\ y % 100 # 0) \/ y % 400 = 0

DaysIn(y, m) ==
    IF m = 2 THEN (IF IsLeap(y) THEN 29 ELSE 28)
    ELSE IF m \in {4, 6, 9, 11} THEN 30 ELSE 31

\* datetime.strptime(j, "%Y%m%d%H%M%S") of a 14-digit string: every field
\* takes its full width or data remains unconverted, and datetime rejects
\* what is no calendar date or clock time.
StrptimeOk(j) ==
    LET y  == StrToNat(SubSeq(j, 1, 4))
        m  == StrToNat(SubSeq(j, 5, 6))
        d  == StrToNat(SubSeq(j, 7, 8))
        h  == StrToNat(SubSeq(j, 9, 10))
        mi == StrToNat(SubSeq(j, 11, 12))
        sc == StrToNat(SubSeq(j, 13, 14))
    IN  /\ Len(j) = 14
        /\ y >= 1
        /\ m \in 1..12
        /\ d \in 1..DaysIn(y, m)
        /\ h \in 0..23
        /\ mi \in 0..59
        /\ sc \in 0..59

\* strftime's %Y: the C library decides whether a year below 1000 is padded
\* to four digits (pads = TRUE) or printed bare (glibc).
FormatYear(y, pads) == IF pads THEN ZeroPad(NatToStr(y), 4) ELSE NatToStr(y)

\* date.strftime("%Y-%m-%d-%H-%M-%S") of the instant strptime read from j.
Strftime(j, pads) ==
    FormatYear(StrToNat(SubSeq(j, 1, 4)), pads)
        \o <<"-">> \o SubSeq(j, 5, 6) \o <<"-">> \o SubSeq(j, 7, 8)
        \o <<"-">> \o SubSeq(j, 9, 10) \o <<"-">> \o SubSeq(j, 11, 12)
        \o <<"-">> \o SubSeq(j, 13, 14)

\* The leftmost position at which the pattern matches (re.search), or 0.
SearchFrom(s) ==
    IF \E i \in 1..Len(s) : MatchAt(s, i)[1]
    THEN CHOOSE i \in 1..Len(s) :
            MatchAt(s, i)[1] /\ \A k \in 1..(i - 1) : ~MatchAt(s, k)[1]
    ELSE 0

\* extract_datetime: `formatted_date` is bound only inside `if match`, so a
\* segment without the trailing pattern reads an unbound local; strptime
\* raises ValueError on digits that are no date and time.
extract_datetime(s, pads) ==
    LET i == SearchFrom(s) IN
    IF i = 0 THEN Raise("UnboundLocalError")
    ELSE LET m      == MatchAt(s, i)
             date   == SubSeq(s, i, m[2])
             time   == LJust6(SubSeq(s, m[3], Len(s)))
             joined == RemoveHyphens(date \o time)
         IN  IF StrptimeOk(joined) THEN Ok(Strftime(joined, pads))
             ELSE Raise("ValueError")

\* str.rstrip('.html') strips the character set {., h, t, m, l}.
HtmlChars == {".", "h", "t", "m", "l"}

HtmlExt == <<".", "h", "t", "m", "l">>

EndsWith(s, suffix) ==
    Len(s) >= Len(suffix) /\ SubSeq(s, Len(s) - Len(suffix) + 1, Len(s)) = suffix

\* A URL is its directory and its last path component; a performer page's
\* last component is the performer's name.
Url(dir, seg) == [dir |-> dir, seg |-> seg]

\* urlparse(url).path.rstrip("/").split("/")[-1]
get_last_url_segment(url) == url.seg

\* f'{performer} - {formatted_date} - {video_id}.mp4'
FormatFilename(performer, formatted_date, video_id) ==
    performer \o <<" ", "-", " ">> \o formatted_date \o <<" ", "-", " ">>
        \o NatToStr(video_id) \o <<".", "m", "p", "4">>

\* get_video_filename: (video_id, filename), or the first exception raised.
get_video_filename(performer, link, pads) ==
    LET last_segment == RStripChars(get_last_url_segment(link), HtmlChars)
        vid          == extract_video_id(last_segment)
        fd           == extract_datetime(last_segment, pads)
    IN  IF ~vid.ok THEN Raise(vid.err)
        ELSE IF ~fd.ok THEN Raise(fd.err)
        ELSE Ok(<<vid.val, FormatFilename(performer, fd.val, vid.val)>>)

(***************************************************************************)
(* Archive ledger                                                          *)
(***************************************************************************)

\* The characters of 'showcamrips', which line.strip('showcamrips') strips.
TagChars == {"s", "h", "o", "w", "c", "a", "m", "r", "i", "p"}

Tag == <<"s", "h", "o", "w", "c", "a", "m", "r", "i", "p", "s">>

Whitespace == {" ", "\n", "\t"}

\* f'showcamrips {video_id}\n'
FormatLine(video_id) == Tag \o <<" ">> \o NatToStr(video_id) \o <<"\n">>

\* Only the whitespace stripped, the tag left in place.
StripLine_whitespaceOnly(line) == StripChars(line, Whitespace)

\* line.strip('showcamrips').strip()
StripLine(line) == StripChars(StripChars(line, TagChars), Whitespace)

\* int(text) of stripped text: an optional sign and at least one digit.
IntOk(t) ==
    LET body == IF t # <<>> /\ t[1] \in {"+", "-"} THEN SubSeq(t, 2, Len(t)) ELSE t
    IN  body # <<>> /\ AllDigits(body)

IntVal(t) ==
    IF t[1] = "-" THEN 0 - StrToNat(SubSeq(t, 2, Len(t)))
    ELSE IF t[1] = "+" THEN StrToNat(SubSeq(t, 2, Len(t)))
    ELSE StrToNat(t)

\* The lines that are no int dropped instead of raising.
read_archive_dropping(lines) ==
    LET good == SelectSeq(lines, LAMBDA l : IntOk(StripLine(l)))
    IN  Ok([k \in 1..Len(good) |-> IntVal(StripLine(good[k]))])

\* read_archive: the list of ints of all lines, or ValueError on the first
\* line that is no int once stripped.
read_archive(lines) ==
    IF \A k \in 1..Len(lines) : IntOk(StripLine(lines[k]))
    THEN Ok([k \in 1..Len(lines) |-> IntVal(StripLine(lines[k]))])
    ELSE Raise("ValueError")

\* save_txt opens the file in mode 'a': the text goes after what is there.
\* A file is <<exists, lines>>; the text written is a sequence of lines.
save_txt(file, text_lines) == [exists |-> TRUE, lines |-> file.lines \o text_lines]

NoFile == [exists |-> FALSE, lines |-> <<>>]

\* The file opened in mode 'w' whether or not it exists.
touch_truncates(file) == [exists |-> TRUE, lines |-> <<>>]

\* touch_archive_path: only a missing file is written ('' appended).
touch_archive_path(file) == IF ~file.exists THEN save_txt(file, <<>>) ELSE file

(***************************************************************************)
(* Documents, the resolver and the site the runs crawl                     *)
(***************************************************************************)

None == [some |-> FALSE, v |-> <<>>]

Some(x) == [some |-> TRUE, v |-> x]

\* Python truthiness of an optional string: None and '' are false.
Truthy(o) == o.some /\ o.v # <<>>

\* A stream URL is a sequence of path tokens; str(None) is the text 'None'.
NoneText == <<"None">>

\* src.replace('loading_video', 'play')
ReplaceLoading(src) ==
    [k \in 1..Len(src) |-> IF src[k] = "loading_video" THEN "play" ELSE src[k]]

\* get_actual_video_link: no iframe gives None; an iframe without a src
\* attribute gives str(None) = 'None'; an empty src gives None.
get_actual_video_link(soup) ==
    IF soup.iframe.present
    THEN LET src == IF soup.iframe.src.some THEN soup.iframe.src.v ELSE NoneText
         IN  IF src # <<>> THEN Some(ReplaceLoading(src)) ELSE None
    ELSE None

\* get_source_website: the text of the /site/ anchor inside span.tl, or None.
get_source_website(soup) == soup.site

\* get_performer_name: the last segment of the first /model/ href, or 'NA'.
get_performer_name(soup) ==
    IF soup.model.some THEN get_last_url_segment(soup.model.v) ELSE <<"N", "A">>

\* A document without a 'pages' element taken for its own single page.
get_performer_pages_onePage(soup) ==
    IF soup.pager.some THEN <<soup.pager.v, Len(soup.pager.v)>>
    ELSE <<<<[dir |-> "model", seg |-> <<"j", "n", "1">>]>>, 1>>

\* get_performer_pages: the hrefs of the anchors inside the element of
\* class 'pages' and their number; ([], 0) without such an element.
get_performer_pages(soup) ==
    IF soup.pager.some THEN <<soup.pager.v, Len(soup.pager.v)>> ELSE <<<<>>, 0>>

\* get_all_page_urls: the hrefs of the elements of class 'moiclick1'.
get_all_page_urls(soup) == soup.anchors

\* The permalink branch never taken.
IsPermalink_never(url) == FALSE

\* The permalink test of main: '/show-cam-sex-movies/' in url and
\* url.endswith('.html').
IsPermalink(url) == url.dir = "show-cam-sex-movies" /\ EndsWith(url.seg, HtmlExt)

Jane == <<"j", "n">>

NA == <<"N", "A">>

Performers == {Jane, NA}

\* What the code reads of a BeautifulSoup document.
Soup(model, pager, anchors, iframe, site) ==
    [model |-> model, pager |-> pager, anchors |-> anchors, iframe |-> iframe,
     site |-> site]

NoIframe == [present |-> FALSE, src |-> None]

Iframe(src) == [present |-> TRUE, src |-> src]

NoSoup == Soup(None, None, <<>>, NoIframe, None)

(***************************************************************************)
(* The site the runs crawl.  L1, L2 and L3 are three listings, L1b is a    *)
(* second URL of listing 1 (another slug); LBad, LNoDate and LBadDate are  *)
(* listings whose last segment does not parse.                             *)
(***************************************************************************)

L1 == Url("show-cam-sex-movies",
          <<"1", "-", "a", "-", "2", "0", "2", "4", "0", "1", "0", "2", "-",
            "1", "5", "3", "0", "0", "0">> \o HtmlExt)

L2 == Url("show-cam-sex-movies",
          <<"2", "-", "a", "-", "2", "0", "2", "4", "-", "0", "1", "-", "0", "3", "_",
            "1", "5", "3", "0">> \o HtmlExt)

L3 == Url("show-cam-sex-movies",
          <<"3", "0", "-", "2", "0", "2", "4", "0", "1", "0", "4", "-",
            "0", "9", "1", "5", "3">> \o HtmlExt)

L1b == Url("show-cam-sex-movies",
           <<"1", "-", "b", "-", "2", "0", "2", "4", "0", "1", "0", "2", "-",
             "1", "5", "3", "0", "0", "0">> \o HtmlExt)

LBad == Url("show-cam-sex-movies",
            <<"x", "-", "2", "0", "2", "4", "0", "1", "0", "2", "-",
              "1", "5", "3", "0">> \o HtmlExt)

\* Leading digits but no trailing date and time.
LNoDate == Url("show-cam-sex-movies", <<"4", "-", "a">> \o HtmlExt)

\* Leading digits and the trailing pattern, but month 13.
LBadDate == Url("show-cam-sex-movies",
                <<"5", "-", "2", "0", "2", "4", "1", "3", "0", "2", "-",
                  "1", "5", "3", "0">> \o HtmlExt)

\* Two performer pages of the same performer; the pagination of the second
\* links its first page twice.
JanePage == Url("model", Jane)

DupPage == Url("model", <<"j", "n", "-", "v">>)

\* In the permalink directory but without the extension: no permalink.  Its
\* document has listing anchors, no pagination and no /model/ link.
NoExtUrl == Url("show-cam-sex-movies", <<"2", "-", "a">>)

P1 == Url("model", <<"j", "n", "1">>)

P2 == Url("model", <<"j", "n", "2">>)

Q1 == Url("model", <<"j", "n", "-", "v", "1">>)

Q2 == Url("model", <<"j", "n", "-", "v", "2">>)

\* The URLs a run may be given on its command line.
EntryUrls == {L1, JanePage, DupPage, NoExtUrl}

LoadingSrc == <<"https:", "cdn", "loading_video", "v">>

PlaySrc == <<"https:", "cdn", "play", "v">>

CbSite == <<"c", "b">>

\* The documents the site may serve for a URL (get_document's results when
\* it does not raise).
DocsAt(url) ==
    IF url \in {L1, L1b}
        THEN {Soup(Some(JanePage), None, <<>>, Iframe(Some(LoadingSrc)), Some(CbSite))}
    ELSE IF url = L2
        THEN {Soup(Some(JanePage), None, <<>>, Iframe(Some(PlaySrc)), None),
              Soup(Some(JanePage), None, <<>>, Iframe(None), None)}
    ELSE IF url = L3
        THEN {Soup(Some(JanePage), None, <<>>, NoIframe, Some(CbSite)),
              Soup(Some(JanePage), None, <<>>, Iframe(Some(<<>>)), Some(CbSite))}
    ELSE IF url = JanePage
        THEN {Soup(Some(JanePage), Some(<<P1, P2>>), <<L1, L2>>, NoIframe, None)}
    ELSE IF url = P2
        THEN {Soup(Some(JanePage), Some(<<P1, P2>>), <<L3>>, NoIframe, None),
              Soup(Some(JanePage), Some(<<P1, P2>>), <<L3, LBad>>, NoIframe, None),
              Soup(Some(JanePage), Some(<<P1, P2>>), <<LNoDate, L3>>, NoIframe, None),
              Soup(Some(JanePage), Some(<<P1, P2>>), <<LBadDate, L3>>, NoIframe, None)}
    ELSE IF url = DupPage
        THEN {Soup(Some(JanePage), Some(<<Q1, Q2, Q1>>), <<L1b>>, NoIframe, None)}
    ELSE IF url = Q2
        THEN {Soup(Some(JanePage), Some(<<Q1, Q2, Q1>>), <<L2>>, NoIframe, None)}
    ELSE IF url = NoExtUrl
        THEN {Soup(None, None, <<L2>>, NoIframe, None)}
    ELSE {NoSoup}

\* The status codes requests.head may report.
StatusCodes == {200, 302, 404}

\* requests.head of a URL without a scheme raises MissingSchema.
HasScheme(link) == link # <<>> /\ link[1] = "https:"

\* A destination path: DL_PATH / source_website / performer / filename, or
\* DL_PATH / performer / filename.
Path(dirs, filename) == [dirs |-> dirs, name |-> filename]

NoPath == Path(<<>>, <<>>)

(***************************************************************************)
(* State                                                                   *)
(***************************************************************************)

\* Bounds of the model.
MaxRuns == 2

MaxArgs == 2

VARIABLES
    archiveFile,          \* ARCHIVES_FOLDER / '<performer>.txt', per performer
    disk,                 \* the destination paths that exist under DL_PATH
    libcPads,             \* whether the C library's %Y pads years below 1000
    pc,                   \* the position of main, "stopped" between runs
    exit,                 \* how the last run ended: "none", "ok", "error"
    args,                 \* args.url
    argi,                 \* the position of `url` in args.url
    base_soup,
    performer,
    page_links,
    pidx,                 \* the position of `page_link` in page_links
    all_links,
    archive,              \* the list read_archive returned
    idx,                  \* the position of `link` in all_links
    video_id,
    video_filename,
    source_website,
    actual_video_link,
    status_code,
    video_download_path,
    \* history variables
    runs,                 \* the runs started
    it,                   \* what the current (or last) loop iteration has done
    runLog,               \* how often the run transferred and appended each ID
    ledger,               \* per performer, the IDs its archive file holds
    knownAtLoad,          \* ledger[performer] when the archive was loaded
    pagesCalls,           \* calls of get_performer_pages for the current url
    pageFetches,          \* get_document calls of the pagination loop
    fetchedAnchors,       \* the anchors of the documents those calls returned
    iterations,           \* loop iterations started for the current url
    raisedAt,             \* the position of main where the run's exception rose
    \* the inputs and results of the parser specification
    parseIn,
    parseOut

fsVars == <<archiveFile, disk>>

crawlVars == <<base_soup, page_links, pidx, pageFetches, fetchedAnchors>>

urlVars == <<performer, all_links, archive, knownAtLoad, pagesCalls>>

iterVars ==
    <<video_id, video_filename, source_website, actual_video_link, status_code,
      video_download_path>>

parseVars == <<parseIn, parseOut, libcPads>>

vars ==
    <<archiveFile, disk, libcPads, pc, exit, args, argi, base_soup, performer,
      page_links, pidx, all_links, archive, idx, video_id, video_filename,
      source_website, actual_video_link, status_code, video_download_path, runs,
      it, runLog, ledger, knownAtLoad, pagesCalls, pageFetches, fetchedAnchors,
      iterations, raisedAt, parseIn, parseOut>>

NoIter ==
    [started |-> FALSE, id |-> 0, skipped |-> FALSE, fetched |-> FALSE,
     raised |-> FALSE, link |-> None, probed |-> FALSE, status |-> 0, transferred |-> FALSE,
     exitCode |-> 0, existed |-> FALSE, exists |-> FALSE, embedded |-> FALSE,
     appended |-> FALSE]

NoLog == [transfers |-> <<>>, appends |-> <<>>]

NoParseIn ==
    [id |-> 0, zeros |-> 0, rest |-> <<>>, y |-> 0, m |-> 0, d |-> 0, style |-> 0,
     sep |-> "-", time |-> <<>>]

NoParseOut == [done |-> FALSE, id |-> Raise("none"), date |-> Raise("none")]

Range(f) == {f[k] : k \in DOMAIN f}

\* How often key was counted in the bag b (a function from keys to counts).
Count(b, key) == IF key \in DOMAIN b THEN b[key] ELSE 0

Counted(b, key) == (key :> Count(b, key) + 1) @@ b

\* A line without the tag, and a tagged line whose remainder is no integer.
UntaggedLine == <<"1", "\n">>

NonIntegerLine == Tag \o <<" ", "x", "\n">>

\* The archive files a run may find: none, an empty one, one holding the
\* line of listing 2, one holding a blank line, one holding an untagged 1,
\* one holding a line that is no integer after a good line.
InitFiles ==
    {NoFile,
     [exists |-> TRUE, lines |-> <<>>],
     [exists |-> TRUE, lines |-> <<FormatLine(2)>>],
     [exists |-> TRUE, lines |-> <<<<"\n">>>>],
     [exists |-> TRUE, lines |-> <<UntaggedLine>>],
     [exists |-> TRUE, lines |-> <<FormatLine(2), NonIntegerLine>>]}

\* main's locals before they are assigned.
LocalsUnset ==
    /\ video_id = 0
    /\ video_filename = <<>>
    /\ source_website = None
    /\ actual_video_link = None
    /\ status_code = 0
    /\ video_download_path = NoPath

\* The state of a process that has not started.
ProcessInit ==
    /\ pc = "stopped"
    /\ exit = "none"
    /\ args = <<>>
    /\ argi = 0
    /\ base_soup = NoSoup
    /\ performer = <<>>
    /\ page_links = <<>>
    /\ pidx = 0
    /\ all_links = <<>>
    /\ archive = <<>>
    /\ idx = 0
    /\ LocalsUnset
    /\ it = NoIter
    /\ runLog = NoLog
    /\ knownAtLoad = {}
    /\ pagesCalls = 0
    /\ pageFetches = 0
    /\ fetchedAnchors = <<>>
    /\ iterations = 0
    /\ raisedAt = "none"

Init ==
    /\ ProcessInit
    /\ \E f \in InitFiles :
        /\ archiveFile = [p \in Performers |-> IF p = Jane THEN f ELSE NoFile]
        /\ ledger = [p \in Performers |->
                        IF p = Jane /\ f.lines = <<FormatLine(2)>> THEN {2}
                        ELSE IF p = Jane /\ f.lines = <<UntaggedLine>> THEN {1}
                        ELSE {}]
    /\ disk = {}
    /\ libcPads = FALSE
    /\ runs = 0
    /\ parseIn = NoParseIn
    /\ parseOut = NoParseOut

(***************************************************************************)
(* main                                                                    *)
(*                                                                         *)
(* A local that the code does not read again before it assigns it is       *)
(* forgotten (set back to its unset value) at the point of its last read:  *)
(* the locals of one loop iteration when the iteration ends, the entry     *)
(* document and the page links when the pagination loop ends.              *)
(***************************************************************************)

\* The exception swallowed: the step is tried again.
Crash_retry ==
    /\ pc' = pc
    /\ exit' = exit

\* The exception recorded but the position kept.
Crash_continue ==
    /\ pc' = pc
    /\ exit' = "error"

\* An exception nobody catches leaves main: the process ends.
Crash ==
    /\ pc' = "stopped"
    /\ exit' = "error"

\* Where the exception that ends the run was raised.
Traceback == raisedAt' = IF exit' = "error" THEN pc ELSE raisedAt

ForgetLocals ==
    /\ video_id' = 0
    /\ video_filename' = <<>>
    /\ source_website' = None
    /\ actual_video_link' = None
    /\ status_code' = 0
    /\ video_download_path' = NoPath

ForgetCrawl ==
    /\ base_soup' = NoSoup
    /\ page_links' = <<>>
    /\ pidx' = 0
    /\ pageFetches' = 0
    /\ fetchedAnchors' = <<>>

\* The position after the next one is taken.
NextListing_skipOne ==
    /\ pc' = "loop"
    /\ idx' = idx + 2
    /\ exit' = exit
    /\ ForgetLocals

\* `break` in place of `continue`: the loop is left.
NextListing_break ==
    /\ pc' = "loop"
    /\ idx' = Len(all_links) + 1
    /\ exit' = exit
    /\ ForgetLocals

\* The pass of `for idx, link in enumerate(all_links)` is over: the end of
\* the loop body, or `continue` (line 323).
NextListing ==
    /\ pc' = "loop"
    /\ idx' = idx + 1
    /\ exit' = exit
    /\ ForgetLocals

\* `python -m showcampy url [url ...]`: a new process.
StartRun ==
    /\ pc = "stopped"
    /\ runs < MaxRuns
    /\ runs' = runs + 1
    /\ \E n \in 1..MaxArgs : \E a \in [1..n -> EntryUrls] : args' = a
    /\ argi' = 1
    /\ pc' = "fetch_entry"
    /\ exit' = "none"
    /\ ForgetCrawl
    /\ ForgetLocals
    /\ performer' = <<>>
    /\ all_links' = <<>>
    /\ archive' = <<>>
    /\ idx' = 0
    /\ it' = NoIter
    /\ runLog' = NoLog
    /\ knownAtLoad' = {}
    /\ pagesCalls' = 0
    /\ iterations' = 0
    /\ raisedAt' = "none"
    /\ UNCHANGED <<fsVars, ledger, parseVars>>

\* Lines 281-290: fetch the entry document, name the performer, and either
\* take the permalink itself as the only listing or read the pagination.
FetchEntry ==
    /\ pc = "fetch_entry"
    /\ \/ /\ Crash
          /\ pagesCalls' = 0
          /\ UNCHANGED <<base_soup, performer, page_links, pidx, all_links>>
       \/ \E doc \in DocsAt(args[argi]) :
            /\ base_soup' = doc
            /\ performer' = get_performer_name(doc)
            /\ pidx' = 1
            /\ exit' = exit
            /\ IF IsPermalink(args[argi])
               THEN /\ all_links' = <<args[argi]>>
                    /\ page_links' = <<>>
                    /\ pagesCalls' = 0
                    /\ pc' = "load_archive"
               ELSE /\ all_links' = <<>>
                    /\ page_links' = get_performer_pages(doc)[1]
                    /\ pagesCalls' = 1
                    /\ pc' = IF get_performer_pages(doc)[2] = 0
                             THEN "load_archive" ELSE "accumulate"
    /\ pageFetches' = 0
    /\ fetchedAnchors' = <<>>
    /\ iterations' = 0
    /\ it' = NoIter
    /\ archive' = <<>>
    /\ knownAtLoad' = {}
    /\ idx' = 0
    /\ UNCHANGED <<fsVars, parseVars, args, argi, iterVars, runs, runLog, ledger>>
    /\ Traceback

\* The entry document stands for the first position only.
ReusesEntry_byIndex(links, k) == k = 1

\* Line 295: the entry document stands for every page link equal to the
\* first one.
ReusesEntry(links, k) == links[k] = links[1]

\* Lines 292-301: one pass of the pagination loop.
AccumulatePage ==
    /\ pc = "accumulate"
    /\ pidx <= Len(page_links)
    /\ \/ /\ ReusesEntry(page_links, pidx)
          /\ all_links' = all_links \o get_all_page_urls(base_soup)
          /\ UNCHANGED <<pageFetches, fetchedAnchors>>
          /\ pidx' = pidx + 1
          /\ pc' = IF pidx = Len(page_links) THEN "load_archive" ELSE "accumulate"
          /\ exit' = exit
       \/ /\ ~ReusesEntry(page_links, pidx)
          /\ \E doc \in DocsAt(page_links[pidx]) :
                /\ all_links' = all_links \o get_all_page_urls(doc)
                /\ fetchedAnchors' = Append(fetchedAnchors, get_all_page_urls(doc))
          /\ pageFetches' = pageFetches + 1
          /\ pidx' = pidx + 1
          /\ pc' = IF pidx = Len(page_links) THEN "load_archive" ELSE "accumulate"
          /\ exit' = exit
       \/ /\ ~ReusesEntry(page_links, pidx)
          /\ Crash
          /\ pageFetches' = pageFetches + 1
          /\ UNCHANGED <<all_links, fetchedAnchors, pidx>>
    /\ UNCHANGED <<fsVars, parseVars, args, argi, base_soup, performer, page_links,
                   archive, idx, iterVars, runs, it, runLog, ledger, knownAtLoad,
                   pagesCalls, iterations>>
    /\ Traceback

\* Lines 303-306: create the archive file if it is missing and read it.
LoadArchive ==
    /\ pc = "load_archive"
    /\ LET touched == touch_archive_path(archiveFile[performer])
           r       == read_archive(touched.lines)
       IN  /\ archiveFile' = [archiveFile EXCEPT ![performer] = touched]
           /\ IF r.ok
              THEN /\ archive' = r.val
                   /\ idx' = 1
                   /\ pc' = "loop"
                   /\ exit' = exit
                   /\ knownAtLoad' = ledger[performer]
              ELSE /\ Crash
                   /\ UNCHANGED <<archive, idx, knownAtLoad>>
    /\ ForgetCrawl
    /\ UNCHANGED <<disk, parseVars, args, argi, performer, all_links, iterVars,
                   runs, it, runLog, ledger, pagesCalls, iterations>>
    /\ Traceback

\* The dedup check left out.
InArchive_never(id, list) == FALSE

\* Line 313: `video_id not in archive`.
InArchive(id, list) == id \in Range(list)

\* Lines 308-313 and 343: name the listing and skip it when it is archived.
ParseListing ==
    /\ pc = "loop"
    /\ idx <= Len(all_links)
    /\ iterations' = iterations + 1
    /\ LET r == get_video_filename(performer, all_links[idx], libcPads)
       IN  IF ~r.ok
           THEN /\ Crash
                /\ it' = [NoIter EXCEPT !.started = TRUE]
                /\ UNCHANGED <<iterVars, idx>>
           ELSE IF InArchive(r.val[1], archive)
           THEN /\ it' = [NoIter EXCEPT !.started = TRUE, !.id = r.val[1],
                                        !.skipped = TRUE]
                /\ NextListing
           ELSE /\ it' = [NoIter EXCEPT !.started = TRUE, !.id = r.val[1]]
                /\ video_id' = r.val[1]
                /\ video_filename' = r.val[2]
                /\ pc' = "fetch_listing"
                /\ UNCHANGED <<exit, idx, source_website, actual_video_link,
                               status_code, video_download_path>>
    /\ UNCHANGED <<fsVars, parseVars, args, argi, crawlVars, urlVars, runs, runLog,
                   ledger>>
    /\ Traceback

\* Lines 314-318: fetch the listing page and resolve the stream URL.
FetchListing ==
    /\ pc = "fetch_listing"
    /\ \/ /\ Crash
          /\ it' = [it EXCEPT !.fetched = TRUE, !.raised = TRUE]
          /\ UNCHANGED <<iterVars, idx>>
       \/ \E doc \in DocsAt(all_links[idx]) :
            IF Truthy(get_actual_video_link(doc))
            THEN /\ it' = [it EXCEPT !.fetched = TRUE,
                                     !.link = get_actual_video_link(doc)]
                 /\ source_website' = get_source_website(doc)
                 /\ actual_video_link' = get_actual_video_link(doc)
                 /\ pc' = "probe"
                 /\ UNCHANGED <<exit, idx, video_id, video_filename, status_code,
                                video_download_path>>
            ELSE /\ it' = [it EXCEPT !.fetched = TRUE,
                                     !.link = get_actual_video_link(doc)]
                 /\ NextListing
    /\ UNCHANGED <<fsVars, parseVars, args, argi, crawlVars, urlVars, runs, runLog,
                   ledger, iterations>>
    /\ Traceback

\* The source site left out of the path.
DownloadPath_flat(site, perf, filename) == Path(<<perf>>, filename)

\* Lines 325-331: where the transfer writes.
DownloadPath(site, perf, filename) ==
    IF Truthy(site) THEN Path(<<site.v, perf>>, filename) ELSE Path(<<perf>>, filename)

\* Every status taken for healthy.
Healthy_any(status) == TRUE

\* Line 321: only 200 is healthy.
Healthy(status) == status = 200

\* Lines 319-331: probe the stream URL; a status other than 200 ends the
\* iteration (`continue`).
Probe ==
    /\ pc = "probe"
    /\ \/ /\ Crash
          /\ it' = [it EXCEPT !.probed = TRUE]
          /\ UNCHANGED <<iterVars, idx>>
       \/ /\ HasScheme(actual_video_link.v)
          /\ \E st \in StatusCodes :
                /\ it' = [it EXCEPT !.probed = TRUE, !.status = st]
                /\ IF ~Healthy(st)
                   THEN NextListing
                   ELSE /\ status_code' = st
                        /\ video_download_path' =
                              DownloadPath(source_website, performer, video_filename)
                        /\ pc' = "transfer"
                        /\ UNCHANGED <<exit, idx, video_id, video_filename,
                                       source_website, actual_video_link>>
    /\ UNCHANGED <<fsVars, parseVars, args, argi, crawlVars, urlVars, runs, runLog,
                   ledger, iterations>>
    /\ Traceback

\* The destination never found.
PathExists_never(path, files) == FALSE

\* The existence check left out.
PathExists_always(path, files) == TRUE

\* Line 337: video_download_path.exists()
PathExists(path, files) == path \in files

\* Lines 333-337: run yt-dlp and look for the destination file.  The exit
\* status of the subprocess is not read.
Transfer ==
    /\ pc = "transfer"
    /\ \/ /\ Crash
          /\ UNCHANGED <<disk, it, runLog, iterVars, idx>>
       \/ \E code \in {0, 1}, creates \in BOOLEAN :
            /\ disk' = IF creates THEN disk \cup {video_download_path} ELSE disk
            /\ it' = [it EXCEPT !.transferred = TRUE, !.exitCode = code,
                                !.existed = video_download_path \in disk,
                                !.exists = video_download_path \in disk']
            /\ runLog' = [runLog EXCEPT
                            !.transfers = Counted(@, <<performer, video_id>>)]
            /\ IF PathExists(video_download_path, disk')
               THEN /\ pc' = "embed"
                    /\ UNCHANGED <<exit, idx, iterVars>>
               ELSE NextListing
    /\ UNCHANGED <<archiveFile, parseVars, args, argi, crawlVars, urlVars, runs,
                   ledger, iterations>>
    /\ Traceback

\* Lines 338-341: embed the listing URL, then append the archive line.
Embed ==
    /\ pc = "embed"
    /\ \/ /\ Crash
          /\ UNCHANGED <<archiveFile, it, runLog, ledger, iterVars, idx>>
       \/ /\ archiveFile' =
                [archiveFile EXCEPT
                    ![performer] = save_txt(@, <<FormatLine(video_id)>>)]
          /\ it' = [it EXCEPT !.embedded = TRUE, !.appended = TRUE]
          /\ runLog' = [runLog EXCEPT
                            !.appends = Counted(@, <<performer, video_id>>)]
          /\ ledger' = [ledger EXCEPT ![performer] = @ \cup {video_id}]
          /\ NextListing
    /\ UNCHANGED <<disk, parseVars, args, argi, crawlVars, urlVars, runs,
                   iterations>>
    /\ Traceback

\* Line 345 and the next pass of `for url in args.url`, or the end of main.
FinishUrl ==
    /\ pc = "loop"
    /\ idx > Len(all_links)
    /\ IF argi < Len(args)
       THEN /\ argi' = argi + 1
            /\ pc' = "fetch_entry"
            /\ exit' = exit
       ELSE /\ argi' = argi
            /\ pc' = "stopped"
            /\ exit' = "ok"
    /\ UNCHANGED <<fsVars, parseVars, args, crawlVars, urlVars, idx, iterVars, runs,
                   it, runLog, ledger, iterations>>
    /\ Traceback

Next ==
    \/ StartRun
    \/ FetchEntry
    \/ AccumulatePage
    \/ LoadArchive
    \/ ParseListing
    \/ FetchListing
    \/ Probe
    \/ Transfer
    \/ Embed
    \/ FinishUrl

Spec == Init /\ [][Next]_vars

(***************************************************************************)
(* The identity parser on its own: extract_video_id and extract_datetime   *)
(* applied to one path segment, as get_video_filename applies them.        *)
(***************************************************************************)

ParseIds == {7, 999, 12345}

ParseRests == {<<>>, <<"-", "a">>, <<"-", "a", "9">>, <<"x", "2", "0", "2", "4">>}

ParseYears == {999, 2024}

ParseMonthDays == {<<1, 2>>, <<2, 29>>, <<12, 31>>}

\* Where the date carries hyphens: nowhere, after the year, after the
\* month, after both.
ParseStyles == {"plain", "year", "month", "both"}

ParseTimes ==
    {<<"1", "5", "3", "0">>, <<"0", "0", "0", "0">>, <<"2", "3", "5", "9">>,
     <<"1", "5", "3", "0", "5">>, <<"0", "9", "1", "5", "3">>,
     <<"1", "5", "3", "0", "0", "0">>, <<"2", "3", "5", "9", "5", "9">>}

\* The most leading zeros written before an ID.
MaxLeadingZeros == 1

Zeros(n) == [k \in 1..n |-> "0"]

DateText(y, m, d, style) ==
    ZeroPad(NatToStr(y), 4)
        \o (IF style \in {"year", "both"} THEN <<"-">> ELSE <<>>)
        \o ZeroPad(NatToStr(m), 2)
        \o (IF style \in {"month", "both"} THEN <<"-">> ELSE <<>>)
        \o ZeroPad(NatToStr(d), 2)

\* <digits><rest>-<date><separator><time>
Segment(in) ==
    Zeros(in.zeros) \o NatToStr(in.id) \o in.rest \o <<"-">>
        \o DateText(in.y, in.m, in.d, in.style) \o <<in.sep>> \o in.time

ParseInputs ==
    {[id |-> i, zeros |-> z, rest |-> r, y |-> y, m |-> md[1], d |-> md[2],
      style |-> st, sep |-> sp, time |-> t] :
        i \in ParseIds, z \in 0..MaxLeadingZeros, r \in ParseRests, y \in ParseYears,
        md \in ParseMonthDays, st \in ParseStyles, sp \in {"-", "_"},
        t \in ParseTimes}

InitParse ==
    /\ ProcessInit
    /\ archiveFile = [p \in Performers |-> NoFile]
    /\ ledger = [p \in Performers |-> {}]
    /\ disk = {}
    /\ runs = 0
    /\ libcPads \in BOOLEAN
    /\ parseIn \in {in \in ParseInputs : in.d <= DaysIn(in.y, in.m)}
    /\ parseOut = NoParseOut

\* Lines 246-247 of get_video_filename.
Extract ==
    /\ ~parseOut.done
    /\ parseOut' = [done |-> TRUE,
                    id   |-> extract_video_id(Segment(parseIn)),
                    date |-> extract_datetime(Segment(parseIn), libcPads)]
    /\ UNCHANGED <<fsVars, libcPads, parseIn, pc, exit, args, argi, crawlVars,
                   urlVars, idx, iterVars, runs, it, runLog, ledger, iterations,
                   raisedAt>>

SpecParse == InitParse /\ [][Extract]_vars

(***************************************************************************)
(* The ledger on its own: one archive file that is created, appended to    *)
(* as line 341 appends, and read back by read_archive.                     *)
(***************************************************************************)

\* The largest of the consecutive IDs recorded, and the most records.
MaxId == 12

MaxRecords == 3

LedgerIds == (0..MaxId) \cup {120, 12345}

InitLedger ==
    /\ ProcessInit
    /\ archiveFile = [p \in Performers |-> NoFile]
    /\ ledger = [p \in Performers |-> {}]
    /\ disk = {}
    /\ runs = 0
    /\ libcPads = FALSE
    /\ parseIn = NoParseIn
    /\ parseOut = NoParseOut

ledgerOther ==
    <<disk, parseVars, pc, args, argi, crawlVars, performer, all_links, pagesCalls,
      idx, iterVars, runs, it, runLog, iterations, raisedAt>>

\* Line 305: touch_archive_path creates the missing file.
LedgerTouch ==
    /\ ~archiveFile[Jane].exists
    /\ archiveFile' = [archiveFile EXCEPT ![Jane] = touch_archive_path(@)]
    /\ UNCHANGED <<ledger, archive, knownAtLoad, exit, ledgerOther>>

\* Line 341: save_txt(performer_archive_path, f'showcamrips {video_id}\n')
\* for an ID not recorded before.
LedgerRecord ==
    /\ archiveFile[Jane].exists
    /\ Len(archiveFile[Jane].lines) < MaxRecords
    /\ \E id \in LedgerIds \ ledger[Jane] :
        /\ archiveFile' = [archiveFile EXCEPT ![Jane] = save_txt(@, <<FormatLine(id)>>)]
        /\ ledger' = [ledger EXCEPT ![Jane] = @ \cup {id}]
    /\ archive' = <<>>
    /\ knownAtLoad' = {}
    /\ exit' = "none"
    /\ UNCHANGED ledgerOther

\* Line 306: archive = read_archive(performer_archive_path).
LedgerRead ==
    /\ archiveFile[Jane].exists
    /\ exit = "none"
    /\ LET r == read_archive(archiveFile[Jane].lines)
       IN  /\ archive' = IF r.ok THEN r.val ELSE <<>>
           /\ exit' = IF r.ok THEN "ok" ELSE "error"
    /\ knownAtLoad' = ledger[Jane]
    /\ UNCHANGED <<archiveFile, ledger, ledgerOther>>

LedgerNext ==
    \/ LedgerTouch
    \/ LedgerRecord
    \/ LedgerRead

SpecLedger == InitLedger /\ [][LedgerNext]_vars

(***************************************************************************)
(* Properties                                                              *)
(***************************************************************************)

IsPrefix(a, b) == Len(a) <= Len(b) /\ SubSeq(b, 1, Len(a)) = a

\* The ID the leading digits of the listing at position k spell.
ListingId(k) ==
    extract_video_id(RStripChars(get_last_url_segment(all_links[k]), HtmlChars)).val

\* C1: a line is appended to an archive file only by the step that follows a
\* completed embedding, in a loop iteration that fetched the listing page,
\* resolved a stream URL, probed it with status 200, ran the transfer and
\* found the destination file (the only way the code observes whether the
\* transfer failed); the line is the line of that listing's ID and goes to
\* the file of that listing's performer.
C1_AppendOnlyAfterVerifiedDownload ==
    [][\A p \in Performers :
          archiveFile'[p].lines # archiveFile[p].lines =>
              /\ pc = "embed"
              /\ p = performer
              /\ it.started /\ it.fetched /\ Truthy(it.link)
              /\ it.probed /\ it.status = 200
              /\ it.transferred /\ it.exists
              /\ video_download_path \in disk
              /\ it'.embedded
              /\ it.id = ListingId(idx)
              /\ archiveFile'[p].lines =
                    Append(archiveFile[p].lines, FormatLine(it.id))]_vars

C1_Witness ==
    /\ it.appended
    /\ it.status = 200
    /\ it.transferred
    /\ archiveFile[Jane].lines # <<>>

\* C2: in one run no ID is appended to a performer's archive file more
\* than once.
C2_AtMostOncePerRun ==
    \A key \in DOMAIN runLog.appends : runLog.appends[key] <= 1

\* C3: a listing whose ID the archive file held when it was loaded is not
\* fetched, probed, transferred, embedded or appended; whatever the loop
\* does beyond the dedup check, it does for an ID absent from the archive.
C3_ArchivedListingUntouched ==
    (\/ pc \in {"fetch_listing", "probe", "transfer", "embed"}
     \/ it.fetched \/ it.probed \/ it.transferred \/ it.embedded \/ it.appended)
        => it.id \notin knownAtLoad

\* The first URL of a second run meets listing 1, which an earlier run
\* recorded, and skips it.
C3_Witness ==
    /\ runs = 2
    /\ argi = 1
    /\ it.skipped
    /\ it.id = 1
    /\ 1 \in knownAtLoad

\* C4: an iteration whose resolver returned None, or whose probe returned a
\* status other than 200, neither runs the transfer nor appends.
C4_NoTransferWithoutHealthyStream ==
    (\/ it.fetched /\ ~it.link.some
     \/ it.probed /\ it.status # 200)
        => /\ ~it.transferred
           /\ ~it.embedded
           /\ ~it.appended
           /\ pc \notin {"transfer", "embed"}

C4_Witness ==
    /\ it.probed
    /\ it.status = 404
    /\ pc = "loop"

\* C5: no step removes or changes a line of an archive file or removes the
\* file: every step leaves each file as it was or appends one line to it.
C5_ArchiveOnlyGrows ==
    [][\A p \in Performers :
          /\ archiveFile[p].exists => archiveFile'[p].exists
          /\ IsPrefix(archiveFile[p].lines, archiveFile'[p].lines)
          /\ Len(archiveFile'[p].lines) <= Len(archiveFile[p].lines) + 1]_vars

\* A second run appends to the archive that the first run left with a line.
C5_Witness ==
    /\ runs = 2
    /\ it.appended
    /\ knownAtLoad # {}
    /\ Len(archiveFile[Jane].lines) >= 2

\* C6: reading back an archive that was created empty and then received the
\* lines of N distinct IDs gives exactly those N IDs.
C6_LedgerRoundTrip ==
    exit # "none" =>
        /\ exit = "ok"
        /\ Range(archive) = ledger[Jane]
        /\ Len(archive) = Cardinality(ledger[Jane])

C6_Witness ==
    /\ exit = "ok"
    /\ Range(archive) = {0, 12, 12345}

\* What the pagination loop accumulates when the entry document stands for
\* every link equal to the first one and every other link is fetched.
RECURSIVE AccumulatedByLink(_, _, _, _)
AccumulatedByLink(links, k, base, fetched) ==
    IF k > Len(links) THEN <<>>
    ELSE IF links[k] = links[1]
         THEN base \o AccumulatedByLink(links, k + 1, base, fetched)
         ELSE Head(fetched) \o AccumulatedByLink(links, k + 1, base, Tail(fetched))

\* What it accumulates when the entry document stands for the first
\* position only.
RECURSIVE AccumulatedByPosition(_, _, _, _)
AccumulatedByPosition(links, k, base, fetched) ==
    IF k > Len(links) THEN <<>>
    ELSE IF k = 1
         THEN base \o AccumulatedByPosition(links, k + 1, base, fetched)
         ELSE Head(fetched) \o AccumulatedByPosition(links, k + 1, base, Tail(fetched))

PaginationDone == pc = "load_archive" /\ pagesCalls = 1 /\ page_links # <<>>

\* C7 as amended: the entry document is used for the first page link and
\* for every later link equal to it; every other link costs one fetch, and
\* the anchors are concatenated in page order.
C7_AccumulationByLink ==
    PaginationDone =>
        /\ pageFetches = Cardinality({k \in 1..Len(page_links) :
                                        page_links[k] # page_links[1]})
        /\ Len(fetchedAnchors) = pageFetches
        /\ all_links = AccumulatedByLink(page_links, 1, get_all_page_urls(base_soup),
                                         fetchedAnchors)

\* The scenario of the specification: pages [p1, p2], two fetches with the
\* entry fetch, listings [L1, L2, L3].
C7_Witness ==
    /\ PaginationDone
    /\ page_links = <<P1, P2>>
    /\ pageFetches = 1
    /\ all_links = <<L1, L2, L3>>

\* C7 as stated: one fetch per page after the first, n with the entry fetch.
C7_AccumulationByPosition ==
    PaginationDone =>
        /\ pageFetches + 1 = Len(page_links)
        /\ Len(fetchedAnchors) = pageFetches
        /\ all_links = AccumulatedByPosition(page_links, 1,
                                             get_all_page_urls(base_soup),
                                             fetchedAnchors)

InLoop == pc \in {"loop", "fetch_listing", "probe", "transfer", "embed"}

PermalinkShape(url) == url.dir = "show-cam-sex-movies" /\ EndsWith(url.seg, HtmlExt)

\* C8: once the entry document of a URL of the permalink shape is fetched,
\* get_performer_pages is not called, no pagination page is fetched, the
\* listing sequence is the entry URL alone, and the loop makes one pass.
C8_PermalinkBypassesPagination ==
    (argi \in 1..Len(args) /\ PermalinkShape(args[argi]) /\ pc # "fetch_entry") =>
        /\ pc # "accumulate"
        /\ pagesCalls = 0
        /\ pageFetches = 0
        /\ page_links = <<>>
        /\ (pc = "load_archive" \/ InLoop) => all_links = <<args[argi]>>
        /\ iterations <= 1
        /\ (pc = "loop" /\ idx > Len(all_links)) => iterations = 1
        /\ (pc = "stopped" /\ exit = "ok") => iterations = 1

C8_Witness ==
    /\ pc = "stopped"
    /\ exit = "ok"
    /\ args = <<L1>>
    /\ iterations = 1
    /\ it.appended

\* The timestamp the specification expects: the date's digits, then the time
\* right-padded with zeros to six digits, hyphen-separated by field.
ExpectedDate(in) ==
    LET t == in.time \o Zeros(6 - Len(in.time))
    IN  ZeroPad(NatToStr(in.y), 4) \o <<"-">> \o ZeroPad(NatToStr(in.m), 2)
            \o <<"-">> \o ZeroPad(NatToStr(in.d), 2)
            \o <<"-">> \o SubSeq(t, 1, 2) \o <<"-">> \o SubSeq(t, 3, 4)
            \o <<"-">> \o SubSeq(t, 5, 6)

ParsedAsExpected ==
    /\ parseOut.id = Ok(parseIn.id)
    /\ parseOut.date = Ok(ExpectedDate(parseIn))

C10_SoftFailureContinues ==
    [][(\/ pc = "probe" /\ it'.probed /\ it'.status \notin {0, 200}
        \/ pc = "transfer" /\ it'.transferred /\ video_download_path \notin disk')
          => /\ pc' = "loop"
             /\ exit' = "none"
             /\ idx' = idx + 1
             /\ all_links' = all_links
             /\ archiveFile' = archiveFile
             /\ ~it'.embedded
             /\ ~it'.appended]_vars

\* Listing 1 was transferred without being recorded and the run has gone on
\* to fetch the page of listing 2.
C10_Witness ==
    /\ argi = 1
    /\ args[1] = JanePage
    /\ Count(runLog.transfers, <<Jane, 1>>) = 1
    /\ Count(runLog.appends, <<Jane, 1>>) = 0
    /\ it.id = 2
    /\ it.fetched
    /\ exit = "none"

\* C11: no run is ended by an exception of the identity parser: a listing
\* whose last segment does not parse is skipped and the loop goes on.
C11_ParseFailureConfined == ~(exit = "error" /\ raisedAt = "loop")

\* C12: a step in which get_document raises for a pagination page or for a
\* listing page ends the run with an error and changes no file; nothing
\* follows it in that run (the next step is the start of a new run), and
\* after a failed pagination fetch no loop iteration was started.
C12_FetchFailureIsFatal ==
    [][LET listingFails == pc = "fetch_listing" /\ it'.raised
           pageFails    == pc = "accumulate" /\ pageFetches' > Len(fetchedAnchors')
       IN  /\ (listingFails \/ pageFails) =>
                /\ pc' = "stopped"
                /\ exit' = "error"
                /\ archiveFile' = archiveFile
                /\ disk' = disk
                /\ runLog' = runLog
                /\ ~it'.probed /\ ~it'.transferred /\ ~it'.appended
           /\ pageFails => iterations' = 0
           /\ (pc = "stopped" /\ raisedAt \in {"accumulate", "fetch_listing"}) =>
                /\ runs' = runs + 1
                /\ pc' = "fetch_entry"
                /\ archiveFile' = archiveFile]_vars

\* The fetch of the page of listing 2 failed after listing 1 was recorded,
\* with listing 3 still to come.
C12_Witness ==
    /\ pc = "stopped"
    /\ exit = "error"
    /\ it.raised
    /\ it.id = 2
    /\ all_links = <<L1, L2, L3>>
    /\ Count(runLog.appends, <<Jane, 1>>) = 1

\* A line of whitespace only.
IsBlank(line) == \A k \in 1..Len(line) : line[k] \in Whitespace

\* The tag, a space, then something that has a character which is neither
\* a digit nor whitespace.
HasNonIntegerRemainder(line) ==
    /\ Len(line) > Len(Tag) + 1
    /\ SubSeq(line, 1, Len(Tag) + 1) = Tag \o <<" ">>
    /\ \E k \in (Len(Tag) + 2)..Len(line) :
            ~IsDigit(line[k]) /\ line[k] \notin Whitespace

\* 'showcamrips <digits>\n'
HasTaggedForm(line) ==
    /\ Len(line) >= Len(Tag) + 3
    /\ SubSeq(line, 1, Len(Tag) + 1) = Tag \o <<" ">>
    /\ line[Len(line)] = "\n"
    /\ \A k \in (Len(Tag) + 2)..(Len(line) - 1) : IsDigit(line[k])

\* C13 as amended: the step that loads an archive with a blank line, or
\* with a tagged line whose remainder is no integer, ends the run with an
\* error before any loop iteration and leaves the file as it was; a load
\* that succeeds has read one ID per line of the file.
C13_MalformedLineIsFatal ==
    [][pc = "load_archive" =>
          LET lines == archiveFile[performer].lines
          IN  /\ (\E k \in 1..Len(lines) :
                      IsBlank(lines[k]) \/ HasNonIntegerRemainder(lines[k]))
                    => /\ pc' = "stopped"
                       /\ exit' = "error"
                       /\ archiveFile' = archiveFile
                       /\ iterations' = 0
              /\ pc' = "loop" =>
                    /\ Len(archive') = Len(lines)
                    /\ archiveFile'[performer].lines = lines]_vars

\* The archive held the line of listing 2 and a line that is no integer;
\* the run ended at the load with listings waiting.
C13_Witness ==
    /\ exit = "error"
    /\ raisedAt = "load_archive"
    /\ archiveFile[Jane].lines = <<FormatLine(2), NonIntegerLine>>
    /\ all_links # <<>>
    /\ iterations = 0

\* C13 as stated: the loop runs only over an archive whose every line has
\* the tagged-integer form.
C13_EveryLineTagged ==
    InLoop => \A k \in 1..Len(archiveFile[performer].lines) :
                  HasTaggedForm(archiveFile[performer].lines[k])

ListingSteps == {"fetch_listing", "probe", "transfer", "embed"}

\* C14: the URL arguments are taken one at a time and in order, the next
\* one only when the loop over the listings of the current one is over; the
\* listing sequence changes only before the archive is loaded and the
\* archive is loaded before the first iteration; the loop takes the
\* positions one by one; and the steps of one listing follow each other in
\* the order parse, fetch, probe, transfer, embed, all at the same position
\* and for the ID of the listing at that position.
C14_SequentialInOrder ==
    [][/\ argi' # argi =>
            \/ pc = "stopped" /\ argi' = 1
            \/ pc = "loop" /\ idx > Len(all_links) /\ argi' = argi + 1
       /\ all_links' # all_links => pc \in {"stopped", "fetch_entry", "accumulate"}
       /\ archive' # archive => pc \in {"stopped", "fetch_entry", "load_archive"}
       /\ pc' = "load_archive" =>
            /\ pc \in {"fetch_entry", "accumulate"}
            /\ pidx' > Len(page_links')
       /\ iterations' > iterations => pc = "loop" /\ iterations' = iterations + 1
       /\ idx' # idx =>
            \/ pc \in {"stopped", "fetch_entry"} /\ idx' = 0
            \/ pc = "load_archive" /\ idx' = 1
            \/ pc \in ListingSteps \cup {"loop"} /\ pc' = "loop" /\ idx' = idx + 1
       /\ pc' = "fetch_listing" => pc = "loop" /\ iterations' = idx
       /\ pc' = "probe" => pc = "fetch_listing"
       /\ pc' = "transfer" => pc = "probe"
       /\ pc' = "embed" => pc = "transfer"
       /\ pc' \in ListingSteps =>
            /\ idx' = idx
            /\ all_links' = all_links
            /\ it'.id = ListingId(idx)
            /\ pc \in ListingSteps => it'.id = it.id]_vars

\* The second URL argument is at its second listing, after the first
\* argument recorded listing 1.
C14_Witness ==
    /\ argi = 2
    /\ args = <<L1, JanePage>>
    /\ pc = "probe"
    /\ idx = 2
    /\ it.id = 2
    /\ Count(runLog.appends, <<Jane, 1>>) = 1

\* '{performer} - {timestamp} - {video_id}.mp4' for the listing at position k.
ExpectedFilename(k) ==
    LET segment == RStripChars(get_last_url_segment(all_links[k]), HtmlChars)
    IN  performer \o <<" ", "-", " ">> \o extract_datetime(segment, libcPads).val
            \o <<" ", "-", " ">> \o NatToStr(extract_video_id(segment).val)
            \o <<".", "m", "p", "4">>

\* C15: while the transfer and the embedding of a listing are due, the
\* destination is site / performer / filename when the listing page gave a
\* source-site label and performer / filename otherwise (below the
\* downloads root), with the filename of the listing's identity; the
\* transfer creates no other file, the existence check reads that path,
\* and the path reaches the embedding unchanged.
C15_DestinationPath ==
    [][/\ pc' \in {"transfer", "embed"} =>
            /\ video_download_path'.name = ExpectedFilename(idx)
            /\ video_download_path'.dirs =
                  IF source_website'.some THEN <<source_website'.v, performer>>
                  ELSE <<performer>>
       /\ pc = "transfer" =>
            /\ disk' \subseteq disk \cup {video_download_path}
            /\ pc' = "embed" => video_download_path \in disk'
            /\ pc' = "loop" => video_download_path \notin disk'
            /\ pc' = "embed" => video_download_path' = video_download_path]_vars

\* Listing 1 of Jane, whose page names the site 'cb', is about to be
\* embedded at cb / jn / 'jn - 2024-01-02-15-30-00 - 1.mp4'.
C15_Witness ==
    /\ pc = "embed"
    /\ source_website = Some(CbSite)
    /\ video_download_path =
          Path(<<CbSite, Jane>>,
               <<"j", "n", " ", "-", " ", "2", "0", "2", "4", "-", "0", "1", "-", "0",
                 "2", "-", "1", "5", "-", "3", "0", "-", "0", "0", " ", "-", " ", "1",
                 ".", "m", "p", "4">>)
    /\ video_download_path \in disk

\* C16: a transfer that returns with the destination file present, whatever
\* its exit status and whether or not the file was there before, is
\* followed by the embedding; an embedding that completes appends the line
\* of the listing's ID to the performer's archive.
C16_SuccessJudgedByFile ==
    [][/\ (pc = "transfer" /\ it'.transferred /\ video_download_path \in disk') =>
            /\ pc' = "embed"
            /\ exit' = "none"
            /\ it'.id = it.id
       /\ (pc = "embed" /\ exit' # "error") =>
            /\ it'.embedded
            /\ it'.appended
            /\ archiveFile'[performer].lines =
                  Append(archiveFile[performer].lines, FormatLine(it.id))]_vars

\* The transfer exited with status 1 and created nothing, the file of an
\* earlier attempt was there, and the ID was recorded.
C16_Witness ==
    /\ it.transferred
    /\ it.exitCode = 1
    /\ it.existed
    /\ it.embedded
    /\ it.appended
    /\ runs = 2

\* The site serves url without an element of class 'pages'.
NoPagination(url) == \A doc \in DocsAt(url) : ~doc.pager.some

\* C17: once the entry document of a non-permalink URL without pagination
\* is fetched, the listing sequence is empty and stays empty, no loop
\* iteration starts, the loop is entered with the archive file in place and
\* nothing to do, and the run ends in error only if the archive does not
\* load.
C17_NoPaginationNoListings ==
    (/\ argi \in 1..Len(args)
     /\ ~PermalinkShape(args[argi])
     /\ NoPagination(args[argi])
     /\ pc # "fetch_entry"
     /\ raisedAt # "fetch_entry") =>
        /\ all_links = <<>>
        /\ pagesCalls = 1
        /\ iterations = 0
        /\ ~it.started
        /\ pc \notin ListingSteps \cup {"accumulate"}
        /\ pc = "loop" => archiveFile[performer].exists /\ idx > Len(all_links)
        /\ pc = "stopped" => exit = "ok" \/ raisedAt = "load_archive"

\* The entry document lists an anchor, the run is over without an error,
\* nothing was transferred and the archive of the performer was created.
C17_Witness ==
    /\ pc = "stopped"
    /\ exit = "ok"
    /\ args = <<NoExtUrl>>
    /\ \E doc \in DocsAt(NoExtUrl) : get_all_page_urls(doc) # <<>>
    /\ runs = 1
    /\ archiveFile[NA] = [exists |-> TRUE, lines |-> <<>>]
    /\ runLog = NoLog

\* C18: the step in which an exception leaves main ends the run where it
\* is and changes no archive file; after it the position in the listings
\* and in the URL arguments never moves, and the only step left is the
\* start of a new run, which finds the archive files as they were.
C18_FailureEndsRun ==
    [][/\ (exit' = "error" /\ exit # "error") =>
            /\ pc' = "stopped"
            /\ raisedAt' = pc
            /\ archiveFile' = archiveFile
            /\ ledger' = ledger
            /\ argi' = argi
            /\ pc # "fetch_entry" => idx' = idx
       /\ exit = "error" =>
            /\ pc = "stopped"
            /\ pc' = "fetch_entry"
            /\ runs' = runs + 1
            /\ archiveFile' = archiveFile]_vars

\* The embedding of listing 2 failed after listing 1 was recorded: listing
\* 3 and the second URL argument are left, the archive holds listing 1.
C18_Witness ==
    /\ exit = "error"
    /\ raisedAt = "embed"
    /\ args = <<JanePage, DupPage>>
    /\ argi = 1
    /\ all_links = <<L1, L2, L3>>
    /\ idx = 2
    /\ archiveFile[Jane].lines = <<FormatLine(1)>>

=============================================================================
